---- MODULE Spec2Model ----
(***************************************************************************)
(* Model of the transaction flagging script src/app.py (lines 57-129):     *)
(* the cleaned record table, the sidebar configuration, the date filter,   *)
(* the summary metrics, the five detectors that OR their selections into   *)
(* the 'flagged' column, and the flagged-percentage metric.                *)
(*                                                                         *)
(* Time is in seconds since 1970-01-01 00:00 (a Thursday); sidebar dates   *)
(* are day numbers since that day.  Amounts are integers, and means and    *)
(* standard deviations are kept exactly: a mean is a fraction num/den, a   *)
(* standard deviation is the square root of a fraction sq_num/sq_den.      *)
(***************************************************************************)
EXTENDS Integers, Sequences, FiniteSets

VARIABLES
    records,              \* the cleaned table: row id -> record (lines 57-68)
    start_date,           \* sidebar: start date or None (line 75)
    end_date,             \* sidebar: end date or None (line 76)
    user_threshold,       \* sidebar: high amount threshold (line 77)
    rapid_txn_threshold,  \* sidebar: rapid transactions threshold (line 78)
    risky_merchants,      \* sidebar: selected high-risk merchants (line 79)
    pc,                   \* the script's position
    df,                   \* the row ids of the current table, in order
    total_txn,            \* line 88
    avg_amount,           \* line 89 (a fraction, 0/0 is NaN)
    max_amount,           \* line 90
    min_amount,           \* line 91
    flagged,              \* the rows whose 'flagged' cell is True
    masks,                \* per detector, the rows its .loc assignment selected
    active,               \* the detectors whose 'if' was taken in this run
    acct_mean,            \* column acct_mean (line 115)
    acct_std,             \* column acct_std (line 116)
    flagged_pct,          \* the percentage shown at line 129
    prev_run              \* what the previous run of the script showed

vars == <<records, start_date, end_date, user_threshold, rapid_txn_threshold,
          risky_merchants, pc, df, total_txn, avg_amount, max_amount,
          min_amount, flagged, masks, active, acct_mean, acct_std,
          flagged_pct, prev_run>>

config == <<start_date, end_date, user_threshold, rapid_txn_threshold>>

metrics == <<total_txn, avg_amount, max_amount, min_amount>>

----------------------------------------------------------------------------
(* Bounds of the model *)

MaxRecs == 2

MaxAcctRecs == 6

MaxRapidRecs == 3

----------------------------------------------------------------------------
(* Values *)

\* pd.NaT: a missing date
NaT == -1

\* value=None of a date_input
None == -1

\* np.inf, the time_diff of a row with no predecessor
Inf == -1

\* float NaN as the fraction 0/0
NaN == [num |-> 0, den |-> 0]

Frac(n, d) == [num |-> n, den |-> d]

\* the square root of n/d
Sqrt(n, d) == [sq_num |-> n, sq_den |-> d]

RapidWindow == 3600

SecondsPerDay == 86400

\* 1970-01-01 is a Thursday (Monday = 0)
EpochWeekday == 3

FirstWeekendDay == 5

\* pd.to_datetime(date): midnight of that day
ToDatetime(day) == day * SecondsPerDay

\* Series.dt.weekday (Monday = 0)
Weekday(t) == ((t \div SecondsPerDay) + EpochWeekday) % 7

----------------------------------------------------------------------------
(* Series helpers *)

RECURSIVE SumOver(_, _)
SumOver(f, S) ==
    IF S = {} THEN 0
    ELSE LET x == CHOOSE y \in S : TRUE IN f[x] + SumOver(f, S \ {x})

Ids(d) == {d[k] : k \in 1..Len(d)}

Amount == [i \in DOMAIN records |-> records[i].amount]

\* the row ids of the cleaned table, in order
AllRows == [k \in DOMAIN records |-> k]

\* df['date'].isna().all(): True on an empty table
DateIsNaAll(d) == \A k \in 1..Len(d) : records[d[k]].date = NaT

\* the rows of one group of groupby('account_id')
AcctRows(d, a) == {i \in Ids(d) : records[i].account_id = a}

\* a comparison with NaT is False
DateGe(t, bound) == t # NaT /\ t >= bound

DateLe(t, bound) == t # NaT /\ t <= bound

----------------------------------------------------------------------------
(* Date filter (lines 81-84) *)

\* a filter that leaves out the rows dated exactly at the end bound
InRangeEndExclusive(i) ==
    /\ DateGe(records[i].date, ToDatetime(start_date))
    /\ DateLe(records[i].date, ToDatetime(end_date) - 1)

InRange(i) ==
    /\ DateGe(records[i].date, ToDatetime(start_date))
    /\ DateLe(records[i].date, ToDatetime(end_date))

FilterApplies(d) ==
    start_date # None /\ end_date # None /\ ~DateIsNaAll(d)

DateFilter(d) ==
    IF FilterApplies(d) THEN SelectSeq(d, InRange) ELSE d

ApplyDateFilter ==
    /\ pc = "filter"
    /\ df' = DateFilter(df)
    /\ pc' = "metrics"
    /\ UNCHANGED <<records, config, risky_merchants, metrics, flagged, masks,
                   active, acct_mean, acct_std, flagged_pct, prev_run>>

----------------------------------------------------------------------------
(* Summary metrics (lines 86-96) *)

Mean(S) ==
    IF S = {} THEN NaN ELSE Frac(SumOver(Amount, S), Cardinality(S))

Max(S) ==
    IF S = {} THEN NaN
    ELSE Frac(CHOOSE x \in {Amount[i] : i \in S} :
                  \A i \in S : Amount[i] <= x, 1)

Min(S) ==
    IF S = {} THEN NaN
    ELSE Frac(CHOOSE x \in {Amount[i] : i \in S} :
                  \A i \in S : Amount[i] >= x, 1)

BasicMetrics ==
    /\ pc = "metrics"
    /\ total_txn' = Len(df)
    /\ avg_amount' = Mean(Ids(df))
    /\ max_amount' = Max(Ids(df))
    /\ min_amount' = Min(Ids(df))
    /\ pc' = "init_flagged"
    /\ UNCHANGED <<records, config, risky_merchants, df, flagged, masks,
                   active, acct_mean, acct_std, flagged_pct, prev_run>>

----------------------------------------------------------------------------
(* df['flagged'] = False (line 100) *)

InitFlagged ==
    /\ pc = "init_flagged"
    /\ flagged' = {}
    /\ pc' = "high_value"
    /\ UNCHANGED <<records, config, risky_merchants, df, metrics, masks,
                   active, acct_mean, acct_std, flagged_pct, prev_run>>

----------------------------------------------------------------------------
(* High-value transactions (lines 102-104) *)

\* a detector that takes a threshold of 0 as a threshold
HighValueActiveAtZero == user_threshold >= 0

HighValueActive == user_threshold > 0

\* a detector that also selects the amounts equal to the threshold
HighValueMaskInclusive(d) ==
    IF HighValueActive
    THEN {i \in Ids(d) : Amount[i] >= user_threshold}
    ELSE {}

HighValueMask(d) ==
    IF HighValueActive
    THEN {i \in Ids(d) : Amount[i] > user_threshold}
    ELSE {}

\* df['flagged'] = mask: an assignment of the whole column
SetFlaggedOverwrite(mask) == mask

\* df.loc[mask, 'flagged'] = True
SetFlagged(mask) == flagged \cup mask

HighValue ==
    /\ pc = "high_value"
    /\ masks' = [masks EXCEPT !["high_value"] = HighValueMask(df)]
    /\ active' = IF HighValueActive THEN active \cup {"high_value"} ELSE active
    /\ flagged' = SetFlagged(masks'["high_value"])
    /\ pc' = "rapid"
    /\ UNCHANGED <<records, config, risky_merchants, df, metrics,
                   acct_mean, acct_std, flagged_pct, prev_run>>

----------------------------------------------------------------------------
(* Rapid repeated transactions (lines 106-112) *)

\* sort_values puts NaT last
DateBefore(t1, t2) == t1 # NaT /\ (t2 = NaT \/ t1 < t2)

RECURSIVE InsertByDate(_, _)
InsertByDate(s, i) ==
    IF s = <<>> THEN <<i>>
    ELSE IF DateBefore(records[i].date, records[Head(s)].date)
         THEN <<i>> \o s
         ELSE <<Head(s)>> \o InsertByDate(Tail(s), i)

RECURSIVE SortByDate(_)
SortByDate(s) ==
    IF s = <<>> THEN <<>>
    ELSE InsertByDate(SortByDate(SubSeq(s, 1, Len(s) - 1)), s[Len(s)])

\* one account's rows of df_sorted
SortedAcct(d, a) ==
    LET InAcct(i) == records[i].account_id = a
    IN  SortByDate(SelectSeq(d, InAcct))

\* groupby('account_id')['date'].diff().dt.total_seconds().fillna(np.inf)
TimeDiff(s, k) ==
    IF k = 1 THEN Inf
    ELSE IF records[s[k]].date = NaT \/ records[s[k - 1]].date = NaT
         THEN Inf
         ELSE records[s[k]].date - records[s[k - 1]].date

\* a window that takes in a gap of exactly one hour
RapidFlagInclusive(s, k) ==
    TimeDiff(s, k) # Inf /\ TimeDiff(s, k) <= RapidWindow

RapidFlag(s, k) == TimeDiff(s, k) # Inf /\ TimeDiff(s, k) < RapidWindow

\* groupby('account_id')['rapid_flag'].sum()
RapidSum(d, a) ==
    LET s == SortedAcct(d, a)
    IN  Cardinality({k \in 1..Len(s) : RapidFlag(s, k)})

RapidIds(d) ==
    {a \in {records[i].account_id : i \in Ids(d)} :
        RapidSum(d, a) >= rapid_txn_threshold}

RapidActive(d) == rapid_txn_threshold > 0 /\ ~DateIsNaAll(d)

\* a detector that reads the table as it was before the date filter
RapidMaskUnfiltered(d) ==
    IF RapidActive(AllRows)
    THEN {i \in Ids(d) : records[i].account_id \in RapidIds(AllRows)}
    ELSE {}

RapidMask(d) ==
    IF RapidActive(d)
    THEN {i \in Ids(d) : records[i].account_id \in RapidIds(d)}
    ELSE {}

RapidRepeated ==
    /\ pc = "rapid"
    /\ masks' = [masks EXCEPT !["rapid"] = RapidMask(df)]
    /\ active' = IF RapidActive(df) THEN active \cup {"rapid"} ELSE active
    /\ flagged' = SetFlagged(masks'["rapid"])
    /\ pc' = "acct_outlier"
    /\ UNCHANGED <<records, config, risky_merchants, df, metrics,
                   acct_mean, acct_std, flagged_pct, prev_run>>

----------------------------------------------------------------------------
(* Unusually large relative to account mean (lines 114-117) *)

\* groupby('account_id')['amount'].transform('mean')
AcctMean(d, i) == Mean(AcctRows(d, records[i].account_id))

\* groupby('account_id')['amount'].transform('std').fillna(0): the sample
\* standard deviation, NaN (filled with 0) for a group of one row
AcctStd(d, i) ==
    LET R == AcctRows(d, records[i].account_id)
        n == Cardinality(R)
        S == SumOver(Amount, R)
        dev2 == [j \in R |-> (n * Amount[j] - S) * (n * Amount[j] - S)]
    IN  IF n < 2 THEN Sqrt(0, 1)
        ELSE Sqrt(SumOver(dev2, R), n * n * (n - 1))

\* x >= m + 2*s
GeMeanPlus2Std(x, m, s) ==
    LET diff == x * m.den - m.num
    IN  /\ diff >= 0
        /\ diff * diff * s.sq_den >= 4 * s.sq_num * m.den * m.den

\* x > m + 2*s for a mean m = num/den and s = sqrt(sq_num/sq_den)
GtMeanPlus2Std(x, m, s) ==
    LET diff == x * m.den - m.num
    IN  /\ diff > 0
        /\ diff * diff * s.sq_den > 4 * s.sq_num * m.den * m.den

OutlierMask(d, mean, std) ==
    {i \in Ids(d) : GtMeanPlus2Std(Amount[i], mean[i], std[i])}

AcctOutlier ==
    /\ pc = "acct_outlier"
    /\ acct_mean' = [i \in Ids(df) |-> AcctMean(df, i)]
    /\ acct_std' = [i \in Ids(df) |-> AcctStd(df, i)]
    /\ masks' = [masks EXCEPT
                     !["acct_outlier"] = OutlierMask(df, acct_mean', acct_std')]
    /\ active' = active \cup {"acct_outlier"}
    /\ flagged' = SetFlagged(masks'["acct_outlier"])
    /\ pc' = "weekend"
    /\ UNCHANGED <<records, config, risky_merchants, df, metrics,
                   flagged_pct, prev_run>>

----------------------------------------------------------------------------
(* Weekend transactions (lines 119-122) *)

\* weekday > 5: Sunday alone
IsWeekendSundayOnly(t) == t # NaT /\ Weekday(t) > FirstWeekendDay

\* df['date'].dt.weekday >= 5: False for NaT
IsWeekend(t) == t # NaT /\ Weekday(t) >= FirstWeekendDay

WeekendActive(d) == ~DateIsNaAll(d)

WeekendMask(d) ==
    IF WeekendActive(d)
    THEN {i \in Ids(d) : IsWeekend(records[i].date)}
    ELSE {}

Weekend ==
    /\ pc = "weekend"
    /\ masks' = [masks EXCEPT !["weekend"] = WeekendMask(df)]
    /\ active' = IF WeekendActive(df) THEN active \cup {"weekend"} ELSE active
    /\ flagged' = SetFlagged(masks'["weekend"])
    /\ pc' = "risky"
    /\ UNCHANGED <<records, config, risky_merchants, df, metrics,
                   acct_mean, acct_std, flagged_pct, prev_run>>

----------------------------------------------------------------------------
(* Risky merchants (lines 124-126) *)

RiskyActive == risky_merchants # {}

\* a detector that matches one of the selected merchants only
RiskyMaskOneMerchant(d) ==
    IF RiskyActive
    THEN {i \in Ids(d) :
             records[i].merchant = CHOOSE m \in risky_merchants : TRUE}
    ELSE {}

RiskyMask(d) ==
    IF RiskyActive
    THEN {i \in Ids(d) : records[i].merchant \in risky_merchants}
    ELSE {}

RiskyMerchants ==
    /\ pc = "risky"
    /\ masks' = [masks EXCEPT !["risky"] = RiskyMask(df)]
    /\ active' = IF RiskyActive THEN active \cup {"risky"} ELSE active
    /\ flagged' = SetFlagged(masks'["risky"])
    /\ pc' = "flagged_metric"
    /\ UNCHANGED <<records, config, risky_merchants, df, metrics,
                   acct_mean, acct_std, flagged_pct, prev_run>>

----------------------------------------------------------------------------
(* Flagged Transactions metric (lines 128-129) *)

\* len(flagged_df)/total_txn*100: an int division, which raises on 0
Percent(n, total) ==
    IF total = 0 THEN "ZeroDivisionError" ELSE "done"

FlaggedMetric ==
    /\ pc = "flagged_metric"
    /\ pc' = Percent(Cardinality(flagged), total_txn)
    /\ flagged_pct' = IF pc' = "done"
                      THEN Frac(Cardinality(flagged) * 100, total_txn)
                      ELSE flagged_pct
    /\ UNCHANGED <<records, config, risky_merchants, df, metrics, flagged,
                   masks, active, acct_mean, acct_std, prev_run>>

----------------------------------------------------------------------------
(* The user adds a high-risk merchant in the sidebar (line 79), and the     *)
(* script runs again from the top on the same cleaned table.                *)

Detectors == {"high_value", "rapid", "acct_outlier", "weekend", "risky"}

NoMasks == [d \in Detectors |-> {}]

MerchantOptions == {records[i].merchant : i \in DOMAIN records}

Stopped == pc \in {"done", "ZeroDivisionError"}

AddRiskyMerchant ==
    /\ Stopped
    /\ \E m \in MerchantOptions \ risky_merchants :
           risky_merchants' = risky_merchants \cup {m}
    /\ prev_run' = [ran |-> TRUE, flagged |-> flagged]
    /\ df' = AllRows
    /\ total_txn' = 0
    /\ avg_amount' = NaN
    /\ max_amount' = NaN
    /\ min_amount' = NaN
    /\ flagged' = {}
    /\ masks' = NoMasks
    /\ active' = {}
    /\ acct_mean' = <<>>
    /\ acct_std' = <<>>
    /\ flagged_pct' = NaN
    /\ pc' = "filter"
    /\ UNCHANGED <<records, config>>

----------------------------------------------------------------------------
(* The inputs: the cleaned table and the sidebar values *)

Rows(Accts, Amts, Merchs, Dates) ==
    [account_id : Accts, amount : Amts, merchant : Merchs, date : Dates]

Tables(R, n) == UNION {[1..k -> R] : k \in 0..n}

InitWith(T, Starts, Ends, Thresholds, RapidThresholds) ==
    /\ records \in T
    /\ start_date \in Starts
    /\ end_date \in Ends
    /\ user_threshold \in Thresholds
    /\ rapid_txn_threshold \in RapidThresholds
    /\ risky_merchants \in SUBSET MerchantOptions
    /\ pc = "filter"
    /\ df = AllRows
    /\ total_txn = 0
    /\ avg_amount = NaN
    /\ max_amount = NaN
    /\ min_amount = NaN
    /\ flagged = {}
    /\ masks = NoMasks
    /\ active = {}
    /\ acct_mean = <<>>
    /\ acct_std = <<>>
    /\ flagged_pct = NaN
    /\ prev_run = [ran |-> FALSE, flagged |-> {}]

\* Instants of the first week of 1970: Thursday 1970-01-01 00:00 and
\* 23:46:40, Friday 00:00, 00:59:59, 01:00 and 23:46:40, Saturday 00:00 and
\* 00:00:01, Sunday 23:59:59, Monday 00:00
Thu0 == ToDatetime(0)
Thu23 == ToDatetime(1) - 800
Fri0 == ToDatetime(1)
Fri0a == ToDatetime(1) + RapidWindow - 1
Fri1 == ToDatetime(1) + RapidWindow
Fri23 == ToDatetime(2) - 800
Sat0 == ToDatetime(2)
Sat0a == ToDatetime(2) + 1
Sun23 == ToDatetime(4) - 1
Mon0 == ToDatetime(4)

\* five undated rows of amount 1 in account A: with them in the table a
\* sixth row of the account can exceed mean + 2*std
BaselineRow == [account_id |-> "A", amount |-> 1, merchant |-> "m1", date |-> NaT]

Baseline == <<BaselineRow, BaselineRow, BaselineRow, BaselineRow, BaselineRow>>

WithBaseline(T) == T \cup {t \o Baseline : t \in T}

\* every detector: two accounts, amounts on both sides of the threshold,
\* undated, weekday and weekend rows, with and without the baseline rows
Init ==
    InitWith(WithBaseline(Tables(Rows({"A", "B"}, {1, 2}, {"m1"},
                                      {NaT, Fri0, Sat0}), MaxRecs)),
             {None, 2}, {2}, {0, 1}, {0, 1})

\* the date filter: rows before, at, between, and after the two bounds
InitFilter ==
    InitWith(Tables(Rows({"A", "B"}, {1, 2}, {"m1"},
                         {NaT, Thu23, Fri0, Sat0, Sat0a}), MaxRecs),
             {None, 1, 2}, {None, 1, 2}, {0}, {0, 1})

\* the weekend detector: every kind of weekday boundary
InitWeekend ==
    InitWith(Tables(Rows({"A"}, {1}, {"m1"},
                         {NaT, Thu0, Fri23, Sat0, Sun23, Mon0}), MaxRecs),
             {None}, {None}, {0}, {0})

\* the rapid detector: gaps of 0, 1, 3599 and 3600 seconds in two accounts
InitRapid ==
    InitWith(Tables(Rows({"A", "B"}, {1}, {"m1"},
                         {NaT, Fri0, Fri0a, Fri1}), MaxRapidRecs),
             {None}, {None}, {0}, {0, 1, 2})

\* the amount detectors: undated tables of up to MaxAcctRecs rows
InitAmounts ==
    InitWith(Tables(Rows({"A", "B"}, {1, 2}, {"m1"}, {NaT}), MaxAcctRecs),
             {None}, {None}, {0, 1}, {0})

\* the risky-merchant detector: three merchants to select from
InitRisky ==
    InitWith(Tables(Rows({"A"}, {1, 2}, {"m1", "m2", "m3"}, {NaT, Sat0}),
                    MaxRecs),
             {None}, {None}, {0, 1}, {0})

Next ==
    \/ ApplyDateFilter
    \/ BasicMetrics
    \/ InitFlagged
    \/ HighValue
    \/ RapidRepeated
    \/ AcctOutlier
    \/ Weekend
    \/ RiskyMerchants
    \/ FlaggedMetric
    \/ AddRiskyMerchant

Spec == Init /\ [][Next]_vars

SpecFilter == InitFilter /\ [][Next]_vars

SpecWeekend == InitWeekend /\ [][Next]_vars

SpecRapid == InitRapid /\ [][Next]_vars

SpecAmounts == InitAmounts /\ [][Next]_vars

SpecRisky == InitRisky /\ [][Next]_vars

----------------------------------------------------------------------------
(* What the specification says of a row i among the rows R, stated from    *)
(* the table and the sidebar values alone.                                 *)

DateOf(i) == records[i].date

AcctOf(i) == records[i].account_id

HasTimestamp(R) == \E i \in R : DateOf(i) # NaT

\* the rows the date filter is to keep
Survives(i) ==
    IF start_date # None /\ end_date # None /\ HasTimestamp(DOMAIN records)
    THEN /\ DateOf(i) # NaT
         /\ start_date * SecondsPerDay <= DateOf(i)
         /\ DateOf(i) <= end_date * SecondsPerDay
    ELSE TRUE

Survivors == {i \in DOMAIN records : Survives(i)}

SameAcct(i, R) == {j \in R : AcctOf(j) = AcctOf(i)}

ExpHigh(i) == user_threshold > 0 /\ Amount[i] > user_threshold

\* j comes before i when the account's dated rows are sorted by timestamp
Precedes(j, i) == DateOf(j) < DateOf(i) \/ (DateOf(j) = DateOf(i) /\ j < i)

\* i is less than an hour after the dated row before it
HasRapidDelta(i, R) ==
    /\ DateOf(i) # NaT
    /\ \E j \in SameAcct(i, R) \ {i} :
           /\ DateOf(j) # NaT
           /\ Precedes(j, i)
           /\ DateOf(i) - DateOf(j) < RapidWindow

RapidDeltas(i, R) ==
    Cardinality({j \in SameAcct(i, R) : HasRapidDelta(j, R)})

ExpRapid(i, R) ==
    /\ rapid_txn_threshold > 0
    /\ HasTimestamp(R)
    /\ RapidDeltas(i, R) >= rapid_txn_threshold

\* amount > mean + 2*std over the account's rows in R, sample std, cleared
\* of its fractions and its square root
ExpOutlier(i, R) ==
    LET G == SameAcct(i, R)
        n == Cardinality(G)
        S == SumOver(Amount, G)
        sq == [j \in G |-> (n * Amount[j] - S) * (n * Amount[j] - S)]
    IN  /\ n * Amount[i] > S
        /\ (n - 1) * sq[i] > 4 * SumOver(sq, G)

\* days since a Thursday: 2 is Saturday, 3 is Sunday
ExpWeekend(i, R) ==
    /\ HasTimestamp(R)
    /\ DateOf(i) # NaT
    /\ (DateOf(i) \div SecondsPerDay) % 7 \in {2, 3}

ExpRisky(i) == records[i].merchant \in risky_merchants

ExpFlagged(i, R) ==
    \/ ExpHigh(i)
    \/ ExpRapid(i, R)
    \/ ExpOutlier(i, R)
    \/ ExpWeekend(i, R)
    \/ ExpRisky(i)

AllDetectorsRan == pc = "flagged_metric" \/ Stopped

----------------------------------------------------------------------------
(* C5: with both bounds given and some row dated, the date filter keeps    *)
(* exactly the rows with start <= timestamp <= end, both ends included,    *)
(* undated rows dropped, none kept when start > end; otherwise it returns  *)
(* the table unchanged.  Row order is kept.                                *)
C5_DateFilterInclusive ==
    pc = "metrics" =>
        /\ Ids(df) = Survivors
        /\ \A k \in 1..(Len(df) - 1) : df[k] < df[k + 1]

\* a run where a row dated exactly at the end bound is kept and an undated
\* row is dropped
C5_Witness ==
    /\ pc = "metrics"
    /\ start_date # None /\ end_date # None /\ start_date < end_date
    /\ \E i \in Ids(df) : DateOf(i) = ToDatetime(end_date)
    /\ \E j \in DOMAIN records \ Ids(df) : DateOf(j) = NaT

----------------------------------------------------------------------------
(* C3: when the filtered table is empty the run completes without raising: *)
(* the total is 0, mean, max and min are not available, and the flagged    *)
(* percentage is 0 or not available.                                       *)
C3_EmptySetCompletes ==
    (Stopped /\ Len(df) = 0) =>
        /\ pc = "done"
        /\ total_txn = 0
        /\ avg_amount = NaN /\ max_amount = NaN /\ min_amount = NaN
        /\ flagged_pct.num = 0

----------------------------------------------------------------------------
(* C10: the date filter is applied once, before the metrics and every      *)
(* detector: from then on the table is the set of surviving rows, and the  *)
(* total, the per-account means and deviations, the flags and the flagged  *)
(* percentage are those of the surviving rows alone.                       *)
C10_PostFilterOnly ==
    /\ pc # "filter" => Ids(df) = Survivors
    /\ pc \notin {"filter", "metrics"} => total_txn = Cardinality(Survivors)
    /\ (pc = "weekend" \/ pc = "risky" \/ AllDetectorsRan) =>
           /\ DOMAIN acct_mean = Survivors
           /\ \A i \in Survivors :
                  /\ acct_mean[i].den = Cardinality(SameAcct(i, Survivors))
                  /\ acct_mean[i].num = SumOver(Amount, SameAcct(i, Survivors))
    /\ AllDetectorsRan =>
           flagged = {i \in Survivors : ExpFlagged(i, Survivors)}
    /\ pc = "done" =>
           flagged_pct = Frac(Cardinality(flagged) * 100, Cardinality(Survivors))

\* a finished run in which the filter removed a row that lies less than an
\* hour before a surviving row of its account, the rapid detector being on,
\* and the surviving row is not flagged
C10_Witness ==
    /\ pc = "done"
    /\ rapid_txn_threshold > 0
    /\ \E i \in Survivors, j \in DOMAIN records \ Survivors :
           /\ AcctOf(i) = AcctOf(j)
           /\ DateOf(j) # NaT /\ DateOf(j) < DateOf(i)
           /\ DateOf(i) - DateOf(j) < RapidWindow
           /\ i \notin flagged

----------------------------------------------------------------------------
DetectorStep ==
    pc \in {"high_value", "rapid", "acct_outlier", "weekend", "risky"}

\* the final column is the OR of the active detectors' selections
C1_FinalFlags ==
    AllDetectorsRan =>
        /\ flagged = UNION {masks[d] : d \in active}
        /\ \A d \in Detectors \ active : masks[d] = {}
        /\ flagged = {i \in Ids(df) : ExpFlagged(i, Ids(df))}

\* a detector step keeps every flag that is set
C1_NoReset == DetectorStep => flagged \subseteq flagged'

(* C1: once every detector has run, a surviving row is flagged if and only *)
(* if a detector that was active selected it, the selections being those   *)
(* of the high-value, rapid, outlier, weekend and risky-merchant rules;    *)
(* and no detector step turns a flag from TRUE to FALSE.                   *)
C1_FlagIsOrOfDetectors == [](C1_FinalFlags) /\ [][C1_NoReset]_vars

\* a finished run where the outlier and the weekend detectors each selected
\* rows, none in common, and some row stayed unflagged
C1_Witness ==
    /\ pc = "done"
    /\ masks["acct_outlier"] # {}
    /\ masks["weekend"] # {}
    /\ masks["acct_outlier"] \cap masks["weekend"] = {}
    /\ Ids(df) \ flagged # {}

----------------------------------------------------------------------------
(* C6: the high-value detector selects a row if and only if the threshold  *)
(* is above 0 and the row's amount is strictly above it; an amount equal   *)
(* to the threshold is not selected, and a threshold of 0 selects nothing. *)
C6_HighValueStrict ==
    pc = "rapid" =>
        /\ masks["high_value"] = {i \in Ids(df) : ExpHigh(i)}
        /\ flagged = masks["high_value"]
        /\ user_threshold = 0 => flagged = {} /\ "high_value" \notin active

\* the detector has run on a row equal to the threshold, left unflagged,
\* and on a row above it, flagged
C6_Witness ==
    /\ pc = "rapid"
    /\ user_threshold > 0
    /\ \E i \in Ids(df) \ flagged : Amount[i] = user_threshold
    /\ \E j \in flagged : Amount[j] > user_threshold

----------------------------------------------------------------------------
\* no timestamps, both thresholds 0, no risky merchant
AllOptionsOff ==
    /\ ~HasTimestamp(DOMAIN records)
    /\ user_threshold = 0
    /\ rapid_txn_threshold = 0
    /\ risky_merchants = {}

----------------------------------------------------------------------------
\* every row of i's account has i's amount
ConstantAcct(i) ==
    \A j \in SameAcct(i, Ids(df)) : Amount[j] = Amount[i]

----------------------------------------------------------------------------
(* C9: the weekend detector selects a row if and only if some row of the   *)
(* filtered table is dated and the row's own date is a Saturday or a       *)
(* Sunday; with no dated row it is not active, and an undated row is never *)
(* selected.                                                               *)
C9_WeekendOnly ==
    pc = "risky" =>
        /\ masks["weekend"] = {i \in Ids(df) : ExpWeekend(i, Ids(df))}
        /\ \A i \in masks["weekend"] : DateOf(i) # NaT
        /\ ~HasTimestamp(Ids(df)) =>
               masks["weekend"] = {} /\ "weekend" \notin active

\* the detector has selected a Saturday row and passed over an undated one
C9_Witness ==
    /\ pc = "risky"
    /\ \E i \in masks["weekend"] : DateOf(i) = Sat0
    /\ \E j \in Ids(df) \ masks["weekend"] : DateOf(j) = NaT

----------------------------------------------------------------------------
(* C4: with a rapid threshold above 0 and some dated row, the rapid        *)
(* detector selects a row if and only if its account has at least          *)
(* threshold gaps of less than 3600 seconds between rows consecutive in    *)
(* timestamp order (equal timestamps are a gap of 0), and then every row   *)
(* of the account is selected; with threshold 0 or no dated row it selects *)
(* nothing.                                                                *)
C4_RapidPerAccount ==
    pc = "acct_outlier" =>
        /\ masks["rapid"] = {i \in Ids(df) : ExpRapid(i, Ids(df))}
        /\ \A i \in masks["rapid"] : SameAcct(i, Ids(df)) \subseteq masks["rapid"]
        /\ (rapid_txn_threshold = 0 \/ ~HasTimestamp(Ids(df))) =>
               masks["rapid"] = {} /\ "rapid" \notin active

\* the detector has selected an account for two rows of one timestamp, its
\* undated row with them, and passed over the other account
C4_Witness ==
    /\ pc = "acct_outlier"
    /\ rapid_txn_threshold > 0
    /\ \E i, j, k \in masks["rapid"] :
           /\ i # j
           /\ DateOf(i) # NaT /\ DateOf(i) = DateOf(j)
           /\ DateOf(k) = NaT

----------------------------------------------------------------------------
(* C8: when the script runs again with one more risky merchant selected    *)
(* and nothing else changed, every row flagged in the run before is        *)
(* flagged again.                                                          *)
C8_RiskyMonotone ==
    (prev_run.ran /\ AllDetectorsRan) => prev_run.flagged \subseteq flagged

\* a second run that kept the flags of the first and added one
C8_Witness ==
    /\ pc = "done"
    /\ prev_run.ran
    /\ prev_run.flagged # {}
    /\ flagged \ prev_run.flagged # {}

====
